---- MODULE Spec2Model ----
(***************************************************************************)
(* Model of mediaflow_proxy/mpd_processor.py: the MPD -> HLS translation   *)
(* (build_hls, build_hls_playlist), the three request handlers             *)
(* (process_manifest, process_playlist, process_segment) and the detached  *)
(* DASH pre-buffer task that process_manifest starts.                      *)
(*                                                                         *)
(* Python values are modelled as follows.                                  *)
(*   dict            a function whose DOMAIN is the set of keys present    *)
(*   list            a sequence                                            *)
(*   None / str      None is <<>>, the string s is <<s>> (key_id, key)     *)
(*   float seconds   an integer number of milliseconds (extinf)            *)
(*   "\n".join(hls)  the sequence of lines, each line a record with a tag  *)
(*   an exception    a result record with ok = FALSE                       *)
(* The URL codec, the DRM decryptor and the pre-buffer routine are         *)
(* external: the codec's result is the record of the arguments it was      *)
(* called with, the decryptor and the pre-buffer routine choose their      *)
(* outcome nondeterministically.                                           *)
(***************************************************************************)
EXTENDS Integers, Sequences, FiniteSets, TLC

VARIABLES
    settings,       \* settings.enable_dash_prebuffer
    mpd,            \* the parsed manifest handed to the handler (mpd_dict)
    req,            \* the arguments of the request being / last handled
    resp,           \* the response (or failure) of that request
    decrypt_calls,  \* the calls made to decrypt_segment for that request
    pc,             \* position of the process_manifest coroutine
    tasks,          \* the pre-buffer tasks created on the event loop
    log,            \* records written by logger.error
    previous        \* media sequence of the playlist built before this one

vars == <<settings, mpd, req, resp, decrypt_calls, pc, tasks, log, previous>>

----------------------------------------------------------------------------
(* Bounds of the model. *)

MaxProfiles == 2
MaxSegs == 2
MaxBytes == 2
MaxTasks == 2
MaxRefresh == 12

(* Constants of the program. *)

DefaultTargetDuration == 3
StartNumberThreshold == 1000
LiveSequenceLimit == 100000
DefaultSequence == 1
HlsVersion == 6

----------------------------------------------------------------------------
(* Python dict and optional-value helpers. *)

Has(d, k) == k \in DOMAIN d

Get(d, k, default) == IF k \in DOMAIN d THEN d[k] ELSE default

Pop(d, k) == [x \in (DOMAIN d) \ {k} |-> d[x]]

Update(d, e) == [x \in (DOMAIN d) \cup (DOMAIN e) |-> IF x \in DOMAIN e THEN e[x] ELSE d[x]]

EmptyDict == [x \in {} |-> ""]

None == <<>>

Str(s) == <<s>>

Truthy(v) == v # None /\ v[1] # ""

OrEmpty(v) == IF Truthy(v) THEN v[1] ELSE ""

Max(S) == CHOOSE m \in S : \A x \in S : x <= m

SeqsUpTo(S, n) == UNION {[1..k -> S] : k \in 0..n}

Ok(lines) == [ok |-> TRUE, hls |-> lines]

KeyError == [ok |-> FALSE, exception |-> "KeyError"]

(* str.lower() on the values has_encrypted takes in the requests of the model. *)
Lower(s) ==
    CASE s = "TRUE" -> "true"
      [] s = "True" -> "true"
      [] s = "FALSE" -> "false"
      [] OTHER -> s

(* The substrings of a MIME type that the classification looks for. *)
MimeParts(mimeType) ==
    CASE mimeType = "video/mp4" -> {"video"}
      [] mimeType = "audio/mp4" -> {"audio"}
      [] mimeType = "application/audio-video" -> {"audio", "video"}
      [] OTHER -> {}

In(sub, mimeType) == sub \in MimeParts(mimeType)

(* math.ceil of a duration in milliseconds, in seconds. *)
Ceil(ms) == (ms + 999) \div 1000

----------------------------------------------------------------------------
(* build_hls_playlist *)

(* The request's has_encrypted flag: pop(..., "false").lower() == "true". *)
HasEncrypted(query_params) == Lower(Get(query_params, "has_encrypted", "false")) = "true"

(* SegmentBaseParams without the removal of d. *)
SegmentBaseParamsKeepD(query_params) ==
    Pop(Pop(query_params, "profile_id"), "has_encrypted")

(* Lines 179-182: the query parameters shared by a profile's segment URLs. *)
SegmentBaseParams(query_params) ==
    Pop(Pop(Pop(query_params, "profile_id"), "d"), "has_encrypted")

(* Lines 147-148. *)
TargetDuration(segments) ==
    LET extinf_values == {segments[i].extinf : i \in {j \in DOMAIN segments : Has(segments[j], "extinf")}}
    IN  IF extinf_values # {} THEN Ceil(Max(extinf_values)) ELSE DefaultTargetDuration

(* MediaSequence with the wrap applied to on-demand manifests too. *)
MediaSequenceWrapAlways(mpd_dict, profile, first_segment) ==
    LET mpd_start_number == Get(profile, "segment_template_start_number", 0)
    IN  IF mpd_start_number # 0 /\ mpd_start_number >= StartNumberThreshold
        THEN Get(first_segment, "number", mpd_start_number)
        ELSE IF /\ Has(first_segment, "time")
                /\ Get(first_segment, "duration_mpd_timescale", 0) > 0
             THEN LET calculated_sequence == first_segment.time \div first_segment.duration_mpd_timescale
                  IN  IF calculated_sequence > LiveSequenceLimit
                      THEN calculated_sequence % LiveSequenceLimit
                      ELSE calculated_sequence
             ELSE Get(first_segment, "number", DefaultSequence)

(* Lines 150-163.  math.floor(time / duration) is the integer floor division  *)
(* for every pair of 32-bit integers: the float quotient of such a pair is    *)
(* never rounded across an integer.                                           *)
MediaSequence(mpd_dict, profile, first_segment) ==
    LET mpd_start_number == Get(profile, "segment_template_start_number", 0)  \* None and 0 are both falsy
    IN  IF mpd_start_number # 0 /\ mpd_start_number >= StartNumberThreshold
        THEN Get(first_segment, "number", mpd_start_number)
        ELSE IF /\ Has(first_segment, "time")
                /\ Get(first_segment, "duration_mpd_timescale", 0) # 0
                /\ Get(first_segment, "duration_mpd_timescale", 0) > 0
             THEN LET calculated_sequence == first_segment.time \div first_segment.duration_mpd_timescale
                  IN  IF Get(mpd_dict, "isLive", FALSE) /\ calculated_sequence > LiveSequenceLimit
                      THEN calculated_sequence % LiveSequenceLimit
                      ELSE calculated_sequence
             ELSE Get(first_segment, "number", DefaultSequence)

(* Lines 145-175: the header emitted for the profile at index 0. *)
PlaylistHeader(mpd_dict, profile, segments) ==
    IF ~Has(mpd_dict, "isLive") THEN KeyError
    ELSE Ok(<< [tag |-> "EXT-X-TARGETDURATION", value |-> TargetDuration(segments)],
               [tag |-> "EXT-X-MEDIA-SEQUENCE", value |-> MediaSequence(mpd_dict, profile, segments[1])],
               [tag |-> "EXT-X-PLAYLIST-TYPE", type |-> IF mpd_dict.isLive THEN "LIVE" ELSE "VOD"] >>)

(* Line 145: the header is emitted when enumerate() gives index 0, the first  *)
(* position of the list (position 1 of the sequence).                         *)
EmitsHeader(index, profiles) == index = 1

(* Lines 186-188. *)
SegmentParams(query_params, init_url, segment, profile) ==
    Update(query_params,
           [init_url |-> init_url, segment_url |-> segment.media, mime_type |-> profile.mimeType])

(* Lines 184-196: the lines of one profile's segments; query_params is the    *)
(* one dict that every iteration updates.                                     *)
RECURSIVE SegmentLines(_, _, _, _, _, _)
SegmentLines(profile, segments, i, query_params, has_encrypted, hls) ==
    IF i > Len(segments) THEN Ok(hls)
    ELSE IF ~Has(segments[i], "extinf") THEN KeyError
    ELSE LET params == SegmentParams(query_params, profile.initUrl, segments[i], profile)
         IN  SegmentLines(profile, segments, i + 1, params, has_encrypted,
                 hls \o << [tag |-> "EXTINF", ms |-> segments[i].extinf],
                           [tag |-> "URI", url |-> "segment_endpoint",
                            query_params |-> params, encrypted |-> has_encrypted] >>)

(* Lines 139-196. *)
RECURSIVE PlaylistLoop(_, _, _, _, _)
PlaylistLoop(mpd_dict, profiles, request, index, hls) ==
    IF index > Len(profiles) THEN Ok(hls)
    ELSE LET profile == profiles[index]
             segments == profile.segments
         IN  IF segments = <<>> THEN PlaylistLoop(mpd_dict, profiles, request, index + 1, hls)
             ELSE LET header == IF EmitsHeader(index, profiles)
                                THEN PlaylistHeader(mpd_dict, profile, segments)
                                ELSE Ok(<<>>)
                      body == SegmentLines(profile, segments, 1,
                                  SegmentBaseParams(request.query_params),
                                  HasEncrypted(request.query_params), <<>>)
                  IN  IF ~header.ok THEN header
                      ELSE IF ~body.ok THEN body
                      ELSE PlaylistLoop(mpd_dict, profiles, request, index + 1,
                                        hls \o header.hls \o body.hls)

(* EndList without the test of isLive. *)
EndListAlways(mpd_dict) == <<[tag |-> "EXT-X-ENDLIST"]>>

(* Lines 198-199. *)
EndList(mpd_dict) == IF mpd_dict.isLive THEN <<>> ELSE <<[tag |-> "EXT-X-ENDLIST"]>>

(* Lines 128-202. *)
build_hls_playlist(mpd_dict, profiles, request) ==
    LET looped == PlaylistLoop(mpd_dict, profiles, request, 1,
                      << [tag |-> "EXTM3U"], [tag |-> "EXT-X-VERSION", value |-> HlsVersion] >>)
    IN  IF ~looped.ok THEN looped
        ELSE IF ~Has(mpd_dict, "isLive") THEN KeyError
        ELSE Ok(looped.hls \o EndList(mpd_dict))

----------------------------------------------------------------------------
(* process_playlist *)

(* MatchingProfiles without the filter on the id. *)
MatchingProfilesAll(mpd_dict, profile_id) == mpd_dict.profiles

(* Line 48. *)
MatchingProfiles(mpd_dict, profile_id) ==
    SelectSeq(mpd_dict.profiles, LAMBDA p : p.id = profile_id)

NotFound == [status |-> 404, detail |-> "Profile not found"]

Unhandled(result) == [status |-> 500, exception |-> result.exception]

HlsResponse(hls_content) ==
    [status |-> 200, content |-> hls_content, media_type |-> "application/vnd.apple.mpegurl"]

(* Lines 42-53. *)
process_playlist(request, mpd_dict, profile_id) ==
    LET matching_profiles == MatchingProfiles(mpd_dict, profile_id)
    IN  IF matching_profiles = <<>> THEN NotFound
        ELSE LET built == build_hls_playlist(mpd_dict, matching_profiles, request)
             IN  IF built.ok THEN HlsResponse(built.hls) ELSE Unhandled(built)

----------------------------------------------------------------------------
(* build_hls *)

(* An insertion-ordered dict (video_profiles, audio_profiles): assigning to a *)
(* key already present replaces its value and keeps its position.            *)
DictSet(od, k, v) ==
    IF \E i \in DOMAIN od : od[i].key = k
    THEN [i \in DOMAIN od |-> IF od[i].key = k THEN [key |-> k, value |-> v] ELSE od[i]]
    ELSE Append(od, [key |-> k, value |-> v])

(* Lines 98-103: the playlist URL of one profile; query_params is the one     *)
(* dict that every iteration updates with the same three keys.               *)
PlaylistUrl(query_params, profile, key_id, key, has_encrypted) ==
    [tag |-> "URI", url |-> "playlist_endpoint",
     query_params |-> Update(query_params,
                        [profile_id |-> profile.id, key_id |-> OrEmpty(key_id), key |-> OrEmpty(key)]),
     encrypted |-> has_encrypted]

(* Lines 105-108: "video" is tested first. *)
Classify(mimeType) ==
    IF In("video", mimeType) THEN "video"
    ELSE IF In("audio", mimeType) THEN "audio"
    ELSE "none"

(* Lines 96-108: the profiles of one class, as the insertion-ordered dict. *)
RECURSIVE Classified(_, _, _, _, _, _, _)
Classified(class, profiles, i, query_params, key_id, key, has_encrypted) ==
    IF i = 0 THEN <<>>
    ELSE LET before == Classified(class, profiles, i - 1, query_params, key_id, key, has_encrypted)
             profile == profiles[i]
         IN  IF Classify(profile.mimeType) = class
             THEN DictSet(before, profile.id,
                          [profile |-> profile,
                           playlist_url |-> PlaylistUrl(query_params, profile, key_id, key, has_encrypted)])
             ELSE before

(* IsDefault with every audio line the default. *)
IsDefaultAlways(i) == "YES"

(* Line 112. *)
IsDefault(i) == IF i = 1 THEN "YES" ELSE "NO"

(* Lines 111-115. *)
AudioLines(audio_profiles) ==
    [i \in DOMAIN audio_profiles |->
        [tag |-> "EXT-X-MEDIA", TYPE |-> "AUDIO", GROUP_ID |-> "audio",
         NAME |-> audio_profiles[i].value.profile.id,
         DEFAULT |-> IsDefault(i), AUTOSELECT |-> IsDefault(i),
         LANGUAGE |-> Get(audio_profiles[i].value.profile, "lang", "und"),
         URI |-> audio_profiles[i].value.playlist_url]]

(* Lines 118-123: a video profile without one of the keys the line reads      *)
(* raises KeyError.                                                           *)
RECURSIVE VideoLines(_, _, _, _)
VideoLines(video_profiles, i, has_audio, hls) ==
    IF i > Len(video_profiles) THEN Ok(hls)
    ELSE LET profile == video_profiles[i].value.profile
         IN  IF ~({"bandwidth", "width", "height", "codecs", "frameRate"} \subseteq DOMAIN profile)
             THEN KeyError
             ELSE VideoLines(video_profiles, i + 1, has_audio,
                      hls \o << [tag |-> "EXT-X-STREAM-INF", BANDWIDTH |-> profile.bandwidth,
                                 RESOLUTION |-> <<profile.width, profile.height>>,
                                 CODECS |-> profile.codecs, FRAME_RATE |-> profile.frameRate,
                                 AUDIO |-> has_audio],
                                video_profiles[i].value.playlist_url >>)

(* Lines 82-125. *)
build_hls(mpd_dict, request, key_id, key) ==
    LET query_params == Pop(request.query_params, "has_encrypted")
        has_encrypted == HasEncrypted(request.query_params)
        n == Len(mpd_dict.profiles)
        video_profiles == Classified("video", mpd_dict.profiles, n, query_params, key_id, key, has_encrypted)
        audio_profiles == Classified("audio", mpd_dict.profiles, n, query_params, key_id, key, has_encrypted)
    IN  VideoLines(video_profiles, 1, audio_profiles # <<>>,
            << [tag |-> "EXTM3U"], [tag |-> "EXT-X-VERSION", value |-> HlsVersion] >>
            \o AudioLines(audio_profiles))

----------------------------------------------------------------------------
(* process_manifest and the pre-buffer task *)

(* Line 28: the h_ query parameters, prefix stripped. *)
HeaderName(k) ==
    CASE k = "h_referer" -> "referer"
      [] k = "h_origin" -> "origin"
      [] OTHER -> ""

ForwardedHeaders(query_params) ==
    LET keys == {k \in DOMAIN query_params : HeaderName(k) # ""}
    IN  [h \in {HeaderName(k) : k \in keys} |->
            query_params[CHOOSE k \in keys : HeaderName(k) = h]]

(* Lines 27-30: whether the handler creates the task. *)
StartsPrebuffer(enable_dash_prebuffer, query_params) ==
    enable_dash_prebuffer /\ Get(query_params, "d", "") # ""

(* Lines 31-33. *)
NewTask(query_params) ==
    [state |-> "scheduled", current |-> TRUE,
     mpd_url |-> Get(query_params, "d", ""), headers |-> ForwardedHeaders(query_params)]

(* CanReturn with the handler awaiting the tasks it created. *)
CanReturnAwaiting(own) == own \subseteq {"succeeded", "failed", "closed", "closed_failed"}

(* Line 39 follows create_task with no await: the return waits for no task.   *)
CanReturn(own) == TRUE

(* The tasks created by the request being handled. *)
OwnTasks == {i \in DOMAIN tasks : tasks[i].current}

(* asyncio runs one coroutine at a time: a task runs only while the handler   *)
(* has returned or is suspended.                                              *)
LoopFree == pc = "idle" \/ ~CanReturn({tasks[i].state : i \in OwnTasks})

(* Lines 18-39 (the response of line 39, or the exception of line 24). *)
ManifestResponse(mpd_dict, request) ==
    LET built == build_hls(mpd_dict, request, request.key_id, request.key)
    IN  IF built.ok THEN HlsResponse(built.hls) ELSE Unhandled(built)

----------------------------------------------------------------------------
(* process_segment *)

(* IsDrm with either of the two enough. *)
IsDrmEither(key_id, key) == Truthy(key_id) \/ Truthy(key)

(* Line 67. *)
IsDrm(key_id, key) == Truthy(key_id) /\ Truthy(key)

DecryptionError == [ok |-> FALSE, exception |-> "DecryptionError"]

(* Lines 74-77. *)
Concatenate(init_content, segment_content) == init_content \o segment_content

(* Lines 56-79; outcome is what decrypt_segment does when it is called. *)
process_segment(init_content, segment_content, mimetype, key_id, key, outcome) ==
    IF IsDrm(key_id, key)
    THEN IF outcome.ok
         THEN [status |-> 200, content |-> outcome.content, media_type |-> mimetype]
         ELSE Unhandled(outcome)
    ELSE [status |-> 200, content |-> Concatenate(init_content, segment_content),
          media_type |-> mimetype]

(* Line 70: the calls made to decrypt_segment. *)
DecryptCalls(init_content, segment_content, key_id, key, outcome) ==
    IF IsDrm(key_id, key)
    THEN << [init_content |-> init_content, segment_content |-> segment_content,
             key_id |-> key_id, key |-> key, outcome |-> outcome] >>
    ELSE <<>>

----------------------------------------------------------------------------
(* The inputs the handlers are run on. *)

Opt(k, S) == {EmptyDict} \cup {(k :> v) : v \in S}

ProfileIds == {"v1", "a1"}

MimeOf(id) == IF id = "v1" THEN "video/mp4" ELSE "audio/mp4"

InitUrls == <<"http://o/init1.mp4", "http://o/init2.mp4", "http://o/init3.mp4">>

MediaUrls ==
    << <<"http://o/p1s1.m4s", "http://o/p1s2.m4s", "http://o/p1s3.m4s">>,
       <<"http://o/p2s1.m4s", "http://o/p2s2.m4s", "http://o/p2s3.m4s">>,
       <<"http://o/p3s1.m4s", "http://o/p3s2.m4s", "http://o/p3s3.m4s">> >>

ExtinfMs == <<4000, 4500, 2000>>

(* A profile of a playlist manifest: its id, its number of segments and the   *)
(* position of the one segment without extinf (0: none).                      *)
ProfileShapes ==
    {[id |-> id, n |-> n, bad |-> bad] : id \in ProfileIds, n \in 0..MaxSegs, bad \in 0..MaxSegs}

MkSegment(k, j, bad) ==
    [media |-> MediaUrls[k][j], number |-> j]
        @@ (IF bad THEN EmptyDict ELSE ("extinf" :> ExtinfMs[j]))

MkProfile(k, shape) ==
    [id |-> shape.id, mimeType |-> MimeOf(shape.id), initUrl |-> InitUrls[k],
     segments |-> [j \in 1..shape.n |-> MkSegment(k, j, j = shape.bad)]]

PlaylistManifests ==
    {live @@ [profiles |-> [k \in DOMAIN shapes |-> MkProfile(k, shapes[k])]] :
        live \in Opt("isLive", BOOLEAN),
        shapes \in {s \in SeqsUpTo(ProfileShapes, MaxProfiles) : \A k \in DOMAIN s : s[k].bad <= s[k].n}}

PlaylistQueries ==
    { EmptyDict,
      [d |-> "http://o/m.mpd", profile_id |-> "v1", has_encrypted |-> "True",
       api_password |-> "pw", init_url |-> "stale"],
      [d |-> "http://o/m.mpd", has_encrypted |-> "false", h_referer |-> "http://r/"],
      [has_encrypted |-> "1", api_password |-> "pw"] }

(* One profile with one segment, in every addressing mode. *)
SequenceManifests ==
    {live @@ [profiles |-> << start @@ [id |-> "v1", mimeType |-> "video/mp4", initUrl |-> InitUrls[1],
                                        segments |-> << number @@ time @@ duration
                                                        @@ [media |-> MediaUrls[1][1], extinf |-> ExtinfMs[1]] >>] >>] :
        live \in Opt("isLive", BOOLEAN),
        start \in Opt("segment_template_start_number", {0, 999, 1000, 2000}),
        number \in Opt("number", {5}),
        time \in Opt("time", {0, 7, 100000, 100001, 150000, 20000000}),
        duration \in Opt("duration_mpd_timescale", {-2, 0, 1, 2, 1000000})}

MasterProfiles ==
    {extra @@ [id |-> id, mimeType |-> "video/mp4", width |-> 640, height |-> 360,
               codecs |-> "avc1", frameRate |-> "30"] :
        id \in {"p1", "p2"}, extra \in Opt("bandwidth", {500000})}
    \cup
    {extra @@ [id |-> id, mimeType |-> "audio/mp4"] : id \in {"p1", "p2"}, extra \in Opt("lang", {"en"})}
    \cup
    {[id |-> id, mimeType |-> "text/vtt"] : id \in {"p1", "p2"}}
    \cup
    {[id |-> "p2", mimeType |-> "application/audio-video", bandwidth |-> 500000, width |-> 640,
      height |-> 360, codecs |-> "avc1", frameRate |-> "30"]}

MasterManifests ==
    {[isLive |-> FALSE, profiles |-> profiles] : profiles \in SeqsUpTo(MasterProfiles, MaxProfiles)}

MasterQueries ==
    { EmptyDict,
      [d |-> "http://o/m.mpd", has_encrypted |-> "TRUE", api_password |-> "pw"],
      [d |-> "http://o/m.mpd", has_encrypted |-> "false", key_id |-> "stale"] }

Keys == {None, Str(""), Str("0a1b")}

(* The manifests and requests of the pre-buffer runs. *)
PrebufferManifests ==
    {[isLive |-> TRUE, profiles |-> profiles] :
        profiles \in { <<>>,
                       << [id |-> "p1", mimeType |-> "audio/mp4"] >>,
                       << [id |-> "p1", mimeType |-> "video/mp4", bandwidth |-> 500000, width |-> 640,
                           height |-> 360, codecs |-> "avc1", frameRate |-> "30"] >>,
                       << [id |-> "p1", mimeType |-> "video/mp4"] >> }}

PrebufferQueries ==
    { EmptyDict,
      [d |-> ""],
      [d |-> "http://o/m.mpd"],
      [d |-> "http://o/m.mpd", h_referer |-> "http://r/", h_origin |-> "http://r"] }

Bytes == SeqsUpTo({0, 1}, MaxBytes)

DecryptOutcomes ==
    {DecryptionError} \cup {[ok |-> TRUE, content |-> b] : b \in {<<>>, <<7>>, <<0, 1>>}}

LiveManifest(time, duration) ==
    [isLive |-> TRUE,
     profiles |-> << [id |-> "v1", mimeType |-> "video/mp4", initUrl |-> InitUrls[1],
                      segments |-> << [media |-> MediaUrls[1][1], extinf |-> ExtinfMs[1],
                                       time |-> time, duration_mpd_timescale |-> duration] >>] >>]

----------------------------------------------------------------------------
(* A request has arrived and waits for its handler: nothing else is in       *)
(* progress.                                                                  *)
Pending(manifests, requests) ==
    /\ mpd \in manifests
    /\ req \in requests
    /\ resp = [status |-> 0]
    /\ decrypt_calls = <<>>
    /\ pc = "idle"
    /\ tasks = <<>>
    /\ log = <<>>
    /\ previous = <<>>

PlaylistRequests(queries) ==
    {[handler |-> "playlist", query_params |-> query_params, profile_id |-> profile_id] :
        query_params \in queries, profile_id \in ProfileIds}

ManifestRequests(queries, keys) ==
    {[handler |-> "manifest", query_params |-> query_params, key_id |-> key_id, key |-> key] :
        query_params \in queries, key_id \in keys, key \in keys}

SegmentRequests ==
    {[handler |-> "segment", init_content |-> init_content, segment_content |-> segment_content,
      mimetype |-> "video/mp4", key_id |-> key_id, key |-> key] :
        init_content \in Bytes, segment_content \in Bytes, key_id \in Keys, key \in Keys}

(* process_playlist, from entry to return. *)
PlaylistRequest ==
    /\ pc = "idle"
    /\ req.handler = "playlist"
    /\ resp.status = 0
    /\ resp' = process_playlist(req, mpd, req.profile_id)
    /\ UNCHANGED <<settings, mpd, req, decrypt_calls, pc, tasks, log, previous>>

(* process_segment, from entry to return. *)
SegmentRequest ==
    \E outcome \in DecryptOutcomes :
        /\ pc = "idle"
        /\ req.handler = "segment"
        /\ resp.status = 0
        /\ resp' = process_segment(req.init_content, req.segment_content, req.mimetype,
                                   req.key_id, req.key, outcome)
        /\ decrypt_calls' = DecryptCalls(req.init_content, req.segment_content,
                                         req.key_id, req.key, outcome)
        /\ UNCHANGED <<settings, mpd, req, pc, tasks, log, previous>>

(* process_manifest, lines 24-37: the playlist is built and the task created. *)
ManifestEnter ==
    LET starts == /\ build_hls(mpd, req, req.key_id, req.key).ok
                  /\ StartsPrebuffer(settings, req.query_params)
    IN  /\ pc = "idle"
        /\ req.handler = "manifest"
        /\ resp.status = 0
        /\ tasks' = IF starts THEN Append(tasks, NewTask(req.query_params)) ELSE tasks
        /\ pc' = "created"
        /\ UNCHANGED <<settings, mpd, req, resp, decrypt_calls, log, previous>>

(* process_manifest, line 39 (or the exception of line 24 reaching the caller). *)
ManifestReturn ==
    /\ pc = "created"
    /\ CanReturn({tasks[i].state : i \in OwnTasks})
    /\ resp' = ManifestResponse(mpd, req)
    /\ pc' = "idle"
    /\ UNCHANGED <<settings, mpd, req, decrypt_calls, tasks, log, previous>>

(* The next manifest request arrives once the last one is answered; the tasks *)
(* of earlier requests stay on the event loop.                                *)
NextManifestRequest(manifests, requests) ==
    \E mpd_dict \in manifests, request \in requests :
        /\ pc = "idle"
        /\ resp.status # 0
        /\ Len(tasks) < MaxTasks
        /\ mpd' = mpd_dict
        /\ req' = request
        /\ resp' = [status |-> 0]
        /\ tasks' = [i \in DOMAIN tasks |-> [tasks[i] EXCEPT !.current = FALSE]]
        /\ UNCHANGED <<settings, decrypt_calls, pc, log, previous>>

(* The event loop starts a scheduled task. *)
TaskStart ==
    \E i \in DOMAIN tasks :
        /\ LoopFree
        /\ tasks[i].state = "scheduled"
        /\ tasks' = [tasks EXCEPT ![i].state = "running"]
        /\ UNCHANGED <<settings, mpd, req, resp, decrypt_calls, pc, log, previous>>

(* prebuffer_dash_manifest returns. *)
TaskSucceed ==
    \E i \in DOMAIN tasks :
        /\ LoopFree
        /\ tasks[i].state = "running"
        /\ tasks' = [tasks EXCEPT ![i].state = "succeeded"]
        /\ UNCHANGED <<settings, mpd, req, resp, decrypt_calls, pc, log, previous>>

(* prebuffer_dash_manifest raises. *)
TaskFail ==
    \E i \in DOMAIN tasks :
        /\ LoopFree
        /\ tasks[i].state = "running"
        /\ tasks' = [tasks EXCEPT ![i].state = "failed"]
        /\ UNCHANGED <<settings, mpd, req, resp, decrypt_calls, pc, log, previous>>

(* Lines 34-37: the done callback logs the exception of a failed task. *)
DoneCallback ==
    \E i \in DOMAIN tasks :
        /\ LoopFree
        /\ tasks[i].state \in {"succeeded", "failed"}
        /\ tasks' = [tasks EXCEPT ![i].state = IF tasks[i].state = "failed" THEN "closed_failed" ELSE "closed"]
        /\ log' = IF tasks[i].state = "failed" THEN Append(log, "Prebuffer failed") ELSE log
        /\ UNCHANGED <<settings, mpd, req, resp, decrypt_calls, pc, previous>>

(* The media sequence a playlist response carries (<<>>: none). *)
SequenceOf(response) ==
    IF response.status # 200 THEN <<>>
    ELSE LET at == {i \in DOMAIN response.content : response.content[i].tag = "EXT-X-MEDIA-SEQUENCE"}
         IN  [k \in 1..Cardinality(at) |-> response.content[CHOOSE i \in at : TRUE].value]

(* The origin publishes the next segment of the live stream: the window's     *)
(* first segment starts one duration later.  A stream that began at 0 runs    *)
(* MaxRefresh segments, one that began near LiveSequenceLimit runs MaxRefresh *)
(* segments past it.                                                          *)
OriginAdvance ==
    LET first == mpd.profiles[1].segments[1]
    IN  /\ first.time < (LiveSequenceLimit + MaxRefresh) * first.duration_mpd_timescale
        /\ first.time \div first.duration_mpd_timescale # MaxRefresh
        /\ mpd' = LiveManifest(first.time + first.duration_mpd_timescale, first.duration_mpd_timescale)
        /\ UNCHANGED <<settings, req, resp, decrypt_calls, pc, tasks, log, previous>>

(* The player asks for the live playlist again. *)
PlaylistRefresh ==
    /\ pc = "idle"
    /\ req.handler = "playlist"
    /\ resp.status # 0
    /\ previous' = SequenceOf(resp)
    /\ resp' = [status |-> 0]
    /\ UNCHANGED <<settings, mpd, req, decrypt_calls, pc, tasks, log>>

----------------------------------------------------------------------------
(* Specifications. *)

InitPlaylist == settings = FALSE /\ Pending(PlaylistManifests, PlaylistRequests(PlaylistQueries))

SpecPlaylist == InitPlaylist /\ [][PlaylistRequest]_vars

InitSequence == settings = FALSE /\ Pending(SequenceManifests, PlaylistRequests({EmptyDict}))

SpecSequence == InitSequence /\ [][PlaylistRequest]_vars

InitMaster ==
    settings = FALSE /\ Pending(MasterManifests, ManifestRequests(MasterQueries, {None, Str("0a1b")}))

NextMaster == ManifestEnter \/ ManifestReturn

SpecMaster == InitMaster /\ [][NextMaster]_vars

InitPrebuffer ==
    settings \in BOOLEAN /\ Pending(PrebufferManifests, ManifestRequests(PrebufferQueries, {None}))

NextPrebuffer ==
    \/ ManifestEnter
    \/ ManifestReturn
    \/ NextManifestRequest(PrebufferManifests, ManifestRequests(PrebufferQueries, {None}))
    \/ TaskStart
    \/ TaskSucceed
    \/ TaskFail
    \/ DoneCallback

SpecPrebuffer == InitPrebuffer /\ [][NextPrebuffer]_vars

InitSegment == settings = FALSE /\ Pending({[isLive |-> FALSE, profiles |-> <<>>]}, SegmentRequests)

SpecSegment == InitSegment /\ [][SegmentRequest]_vars

InitRefresh ==
    /\ settings = FALSE
    /\ Pending({LiveManifest(time * duration, duration) :
                    time \in {0, LiveSequenceLimit - 3}, duration \in {1, 2}},
               {[handler |-> "playlist", query_params |-> EmptyDict, profile_id |-> "v1"]})

NextRefresh == OriginAdvance \/ PlaylistRequest \/ PlaylistRefresh

SpecRefresh == InitRefresh /\ [][NextRefresh]_vars

Spec == SpecPlaylist

----------------------------------------------------------------------------
(* Reading a response. *)

TagLines(response, tag) ==
    SelectSeq(response.content, LAMBDA line : line.tag = tag)

Matched == SelectSeq(mpd.profiles, LAMBDA p : p.id = req.profile_id)

Answered(handler) == req.handler = handler /\ pc = "idle" /\ resp.status # 0

(* The first profile of the list that has segments (0: none has). *)
FirstWithSegments(profiles) ==
    IF \E k \in DOMAIN profiles : profiles[k].segments # <<>>
    THEN CHOOSE k \in DOMAIN profiles :
            /\ profiles[k].segments # <<>>
            /\ \A h \in 1..(k - 1) : profiles[h].segments = <<>>
    ELSE 0

----------------------------------------------------------------------------
(* Playlist requests (SpecPlaylist). *)

(* C1: when the leading profiles of the list have no segments and a later one *)
(* has, the playlist carries #EXT-X-TARGETDURATION, #EXT-X-MEDIA-SEQUENCE and *)
(* #EXT-X-PLAYLIST-TYPE, with the values of the first profile that has        *)
(* segments.                                                                  *)
C1_SkipThenDerive ==
    (/\ Answered("playlist")
     /\ resp.status = 200
     /\ Matched[1].segments = <<>>
     /\ FirstWithSegments(Matched) > 1)
    => LET first == Matched[FirstWithSegments(Matched)]
       IN  /\ TagLines(resp, "EXT-X-TARGETDURATION")
                = << [tag |-> "EXT-X-TARGETDURATION", value |-> TargetDuration(first.segments)] >>
           /\ TagLines(resp, "EXT-X-MEDIA-SEQUENCE")
                = << [tag |-> "EXT-X-MEDIA-SEQUENCE",
                      value |-> MediaSequence(mpd, first, first.segments[1])] >>
           /\ TagLines(resp, "EXT-X-PLAYLIST-TYPE")
                = << [tag |-> "EXT-X-PLAYLIST-TYPE", type |-> IF mpd.isLive THEN "LIVE" ELSE "VOD"] >>

(* C5: the playlist returned ends with #EXT-X-ENDLIST when the manifest is    *)
(* not live, and holds no #EXT-X-ENDLIST line when it is live, whatever       *)
(* profiles have segments.                                                    *)
C5_EndListIffNotLive ==
    (Answered("playlist") /\ resp.status = 200)
    => IF mpd.isLive
       THEN TagLines(resp, "EXT-X-ENDLIST") = <<>>
       ELSE resp.content[Len(resp.content)].tag = "EXT-X-ENDLIST"

C5_Witness ==
    /\ Answered("playlist")
    /\ resp.status = 200
    /\ ~mpd.isLive
    /\ Len(Matched) = MaxProfiles
    /\ Matched[1].segments = <<>>
    /\ Len(TagLines(resp, "EXTINF")) > 0
    /\ resp.content[Len(resp.content)].tag = "EXT-X-ENDLIST"

(* The media URLs of the segments of the profiles with the given id, in       *)
(* manifest order.                                                            *)
RECURSIVE MediaOf(_, _, _)
MediaOf(profiles, k, id) ==
    IF k = 0 THEN <<>>
    ELSE MediaOf(profiles, k - 1, id)
         \o (IF profiles[k].id = id
             THEN [j \in DOMAIN profiles[k].segments |-> profiles[k].segments[j].media]
             ELSE <<>>)

(* C7: process_playlist answers 404, with no playlist, exactly when no        *)
(* profile of the manifest has the requested id; otherwise the playlist is    *)
(* built from the profiles with that id, all of them, in manifest order.      *)
C7_NotFoundIffNoMatch ==
    Answered("playlist")
    => /\ (resp.status = 404) <=> (\A k \in DOMAIN mpd.profiles : mpd.profiles[k].id # req.profile_id)
       /\ resp.status = 404 => ~Has(resp, "content")
       /\ resp.status = 200 =>
            LET uris == TagLines(resp, "URI")
            IN  [i \in DOMAIN uris |-> uris[i].query_params.segment_url]
                    = MediaOf(mpd.profiles, Len(mpd.profiles), req.profile_id)

C7_Witness ==
    /\ Answered("playlist")
    /\ resp.status = 404
    /\ Len(mpd.profiles) = MaxProfiles
    /\ \A k \in DOMAIN mpd.profiles : mpd.profiles[k].segments # <<>>

(* The spellings of "true" among the has_encrypted values of the requests. *)
TrueSpellings == {"true", "True", "TRUE"}

(* The query parameters C10 states for one segment. *)
ExpectedParams(query_params, profile, segment) ==
    [k \in ((DOMAIN query_params) \ {"profile_id", "d", "has_encrypted"})
             \cup {"init_url", "segment_url", "mime_type"} |->
        CASE k = "init_url" -> profile.initUrl
          [] k = "segment_url" -> segment.media
          [] k = "mime_type" -> profile.mimeType
          [] OTHER -> query_params[k]]

RECURSIVE ExpectedUris(_, _, _)
ExpectedUris(profiles, k, query_params) ==
    IF k = 0 THEN <<>>
    ELSE ExpectedUris(profiles, k - 1, query_params)
         \o [j \in DOMAIN profiles[k].segments |->
                [query_params |-> ExpectedParams(query_params, profiles[k], profiles[k].segments[j]),
                 encrypted |-> /\ Has(query_params, "has_encrypted")
                               /\ query_params.has_encrypted \in TrueSpellings]]

(* C10: the URL codec gets, for every segment of every profile that has       *)
(* segments, the request's query parameters without profile_id, d and         *)
(* has_encrypted, the rest unchanged, with init_url, segment_url and          *)
(* mime_type set from that segment and its own profile; it encrypts exactly   *)
(* when has_encrypted is "true" in any letter case.                           *)
C10_SegmentUrlParams ==
    (Answered("playlist") /\ resp.status = 200)
    => LET uris == TagLines(resp, "URI")
       IN  [i \in DOMAIN uris |-> [query_params |-> uris[i].query_params,
                                   encrypted |-> uris[i].encrypted]]
               = ExpectedUris(Matched, Len(Matched), req.query_params)

C10_Witness ==
    /\ Answered("playlist")
    /\ resp.status = 200
    /\ {"d", "profile_id", "has_encrypted", "init_url", "api_password"} \subseteq DOMAIN req.query_params
    /\ req.query_params.has_encrypted = "True"
    /\ LET uris == TagLines(resp, "URI")
       IN  /\ Len(uris) = MaxProfiles * MaxSegs
           /\ uris[1].encrypted
           /\ uris[1].query_params.init_url # uris[Len(uris)].query_params.init_url
           /\ uris[1].query_params.segment_url # uris[2].query_params.segment_url
           /\ uris[1].query_params.api_password = "pw"

----------------------------------------------------------------------------
(* Media sequence (SpecSequence). *)

(* The media sequence C2 states for a playlist whose first profile is         *)
(* profile and whose first segment is segment.                                *)
ClaimedSequence(live, profile, segment) ==
    IF Has(profile, "segment_template_start_number") /\ profile.segment_template_start_number >= 1000
    THEN IF Has(segment, "number") THEN segment.number ELSE profile.segment_template_start_number
    ELSE IF /\ Has(segment, "time")
            /\ Has(segment, "duration_mpd_timescale")
            /\ segment.duration_mpd_timescale > 0
         THEN LET calc == segment.time \div segment.duration_mpd_timescale
              IN  IF live /\ calc > 100000 THEN calc % 100000 ELSE calc
         ELSE IF Has(segment, "number") THEN segment.number ELSE 1

(* C2: the media sequence emitted is the one the three cases give, for every  *)
(* combination of present and absent fields, live and on demand; time         *)
(* 20000000 with timescale 1000000 on demand gives 20.                        *)
C2_MediaSequence ==
    (Answered("playlist") /\ resp.status = 200)
    => LET profile == mpd.profiles[1]
           segment == profile.segments[1]
       IN  /\ SequenceOf(resp) = << ClaimedSequence(mpd.isLive, profile, segment) >>
           /\ (/\ ~mpd.isLive
               /\ Get(profile, "segment_template_start_number", 0) < 1000
               /\ Get(segment, "time", 0) = 20000000
               /\ Get(segment, "duration_mpd_timescale", 0) = 1000000)
              => SequenceOf(resp) = <<20>>

(* A live playlist whose division gives 150000 carries the sequence 50000. *)
C2_Witness ==
    /\ Answered("playlist")
    /\ resp.status = 200
    /\ mpd.isLive
    /\ ~Has(mpd.profiles[1], "segment_template_start_number")
    /\ Has(mpd.profiles[1].segments[1], "number")
    /\ Get(mpd.profiles[1].segments[1], "time", 0) = 150000
    /\ Get(mpd.profiles[1].segments[1], "duration_mpd_timescale", 0) = 1
    /\ SequenceOf(resp) = <<50000>>

----------------------------------------------------------------------------
(* Master playlist (SpecMaster). *)

IsAudio(profile) ==
    "audio" \in MimeParts(profile.mimeType) /\ "video" \notin MimeParts(profile.mimeType)

(* C4: the master playlist starts with #EXTM3U and #EXT-X-VERSION:6; with an  *)
(* audio profile present exactly one #EXT-X-MEDIA line has DEFAULT=YES and    *)
(* AUTOSELECT=YES, the first one, named after the first audio profile of the  *)
(* manifest, and the others have DEFAULT=NO; with none there is no            *)
(* #EXT-X-MEDIA line.                                                         *)
C4_MasterHeaderAndDefaultAudio ==
    (Answered("manifest") /\ resp.status = 200)
    => LET media == TagLines(resp, "EXT-X-MEDIA")
           audio == {k \in DOMAIN mpd.profiles : IsAudio(mpd.profiles[k])}
       IN  /\ resp.content[1] = [tag |-> "EXTM3U"]
           /\ resp.content[2] = [tag |-> "EXT-X-VERSION", value |-> 6]
           /\ audio = {} => media = <<>>
           /\ audio # {} =>
                /\ Cardinality({i \in DOMAIN media : media[i].DEFAULT = "YES"}) = 1
                /\ media[1].DEFAULT = "YES"
                /\ media[1].AUTOSELECT = "YES"
                /\ media[1].NAME = mpd.profiles[CHOOSE k \in audio : \A h \in audio : k <= h].id
                /\ \A i \in DOMAIN media : i > 1 => media[i].DEFAULT = "NO" /\ media[i].AUTOSELECT = "NO"

C4_Witness ==
    /\ Answered("manifest")
    /\ resp.status = 200
    /\ Len(TagLines(resp, "EXT-X-MEDIA")) = MaxProfiles
    /\ TagLines(resp, "EXT-X-MEDIA")[MaxProfiles].DEFAULT = "NO"

IsMalformedVideo(profile) == "video" \in MimeParts(profile.mimeType) /\ ~Has(profile, "bandwidth")

(* C8: a manifest with a video profile that lacks bandwidth and with          *)
(* well-formed profiles still gives a master playlist, which holds the        *)
(* entries of the well-formed profiles.                                       *)
C8_MalformedProfileSkipped ==
    (/\ Answered("manifest")
     /\ \E k \in DOMAIN mpd.profiles : IsMalformedVideo(mpd.profiles[k])
     /\ \E k \in DOMAIN mpd.profiles :
            IsAudio(mpd.profiles[k]) \/ Has(mpd.profiles[k], "bandwidth"))
    => /\ resp.status = 200
       /\ \A k \in DOMAIN mpd.profiles :
            /\ IsAudio(mpd.profiles[k])
                => \E i \in DOMAIN resp.content :
                        /\ resp.content[i].tag = "EXT-X-MEDIA"
                        /\ resp.content[i].NAME = mpd.profiles[k].id
            /\ Has(mpd.profiles[k], "bandwidth")
                => \E i \in DOMAIN resp.content :
                        /\ resp.content[i].tag = "URI"
                        /\ resp.content[i].query_params.profile_id = mpd.profiles[k].id

----------------------------------------------------------------------------
(* Segment delivery (SpecSegment). *)

NonEmpty(v) == v # <<>> /\ v # <<"">>

(* C3: with keyId and key both non-empty the decryptor is called once, with   *)
(* (initBytes, segmentBytes, keyId, key), its result is the response and its  *)
(* failure is the failure of the delivery; otherwise the decryptor is not     *)
(* called and the response is initBytes followed by segmentBytes.             *)
C3_DrmIffBothKeys ==
    Answered("segment")
    => IF NonEmpty(req.key_id) /\ NonEmpty(req.key)
       THEN /\ Len(decrypt_calls) = 1
            /\ decrypt_calls[1].init_content = req.init_content
            /\ decrypt_calls[1].segment_content = req.segment_content
            /\ decrypt_calls[1].key_id = req.key_id
            /\ decrypt_calls[1].key = req.key
            /\ IF decrypt_calls[1].outcome.ok
               THEN resp.status = 200 /\ resp.content = decrypt_calls[1].outcome.content
               ELSE resp.status = 500 /\ ~Has(resp, "content")
       ELSE /\ decrypt_calls = <<>>
            /\ resp.status = 200
            /\ Len(resp.content) = Len(req.init_content) + Len(req.segment_content)
            /\ \A i \in DOMAIN req.init_content : resp.content[i] = req.init_content[i]
            /\ \A i \in DOMAIN req.segment_content :
                    resp.content[Len(req.init_content) + i] = req.segment_content[i]

(* A delivery on the DRM path whose decryptor fails. *)
C3_Witness ==
    /\ Answered("segment")
    /\ Len(decrypt_calls) = 1
    /\ ~decrypt_calls[1].outcome.ok
    /\ resp.status = 500
    /\ Len(req.init_content) = MaxBytes
    /\ Len(req.segment_content) = MaxBytes

----------------------------------------------------------------------------
(* Cache warming (SpecPrebuffer). *)

(* C6: a request whose master playlist is built has a task exactly when       *)
(* pre-buffering is enabled and a manifest URL is present; the task makes no  *)
(* step before the response is returned; the response is the master playlist  *)
(* whatever state any task is in, and fails only on a manifest build_hls      *)
(* cannot render; a failed task leaves one log record and nothing else.       *)
C6_DetachedPrebuffer ==
    /\ (Answered("manifest") /\ resp.status = 200)
        => (OwnTasks # {} <=> (settings /\ Has(req.query_params, "d") /\ req.query_params.d # ""))
    /\ \A i \in OwnTasks : tasks[i].state # "scheduled" => (pc = "idle" /\ resp.status = 200)
    /\ Answered("manifest")
        => /\ resp.status \in {200, 500}
           /\ resp.status = 500 <=> \E k \in DOMAIN mpd.profiles : IsMalformedVideo(mpd.profiles[k])
           /\ resp.status = 200 => resp.content = build_hls(mpd, req, req.key_id, req.key).hls
    /\ Len(log) = Cardinality({i \in DOMAIN tasks : tasks[i].state = "closed_failed"})

(* The response was returned, and the request's task failed afterwards. *)
C6_Witness ==
    /\ Answered("manifest")
    /\ resp.status = 200
    /\ Len(tasks) = MaxTasks
    /\ tasks[1].state = "running"
    /\ \E i \in OwnTasks : tasks[i].state = "closed_failed"
    /\ log # <<>>

----------------------------------------------------------------------------
(* Live refreshes (SpecRefresh). *)

(* C9: over the refreshes of a live playlist whose first segment's time does  *)
(* not decrease, the media sequence does not decrease.                        *)
C9_SequenceNeverDecreases ==
    (previous # <<>> /\ SequenceOf(resp) # <<>>) => SequenceOf(resp)[1] >= previous[1]

====
